---- MODULE Spec2Model ----
(***************************************************************************)
(* Model of the multi-client chat server (server/adv_server.py): the       *)
(* accept loop, one client_thread per connection, the admin console        *)
(* thread, the shared clients list and the chat log file; of the basic     *)
(* one-client server (server/server.py); and of the codec both use         *)
(* (client/encryption.py).                                                 *)
(*                                                                         *)
(* Threads are CPython threads: a step of the model is a stretch of one    *)
(* thread's code between two points where the interpreter can switch       *)
(* (blocking I/O, or the boundary between two bytecodes that touch the     *)
(* shared list).  list.append, list.remove and one FOR_ITER fetch are      *)
(* each a single step.                                                     *)
(***************************************************************************)
EXTENDS Integers, Sequences, FiniteSets, TLC

\* ------------------------------------------------------------------ bounds
MaxConns == 2   \* connections accepted during one run
MaxReqs  == 2   \* messages received on one connection
MaxTime  == 1   \* distinct values friendly_now() can return
MaxText  == 2   \* characters of the text typed after BROADCAST
MaxPlain == 2   \* characters of the plaintext given to the codec

Conns == 1..MaxConns
Times == 1..MaxTime

\* ------------------------------------------------------------ JSON values
Absent  == "<absent>"       \* key missing from the request object
NoError == << >>            \* error=None
NoData  == [kind |-> "null"]  \* data=None
NoResp  == [status |-> "<none>", data |-> NoData, error |-> NoError]

AbsentVal == [t |-> "absent", n |-> 0]
Num(n)    == [t |-> "num", n |-> n]
NumStr(n) == [t |-> "numstr", n |-> n] \* a string float() accepts, such as "3"
NonNum    == [t |-> "str", n |-> 0]   \* a string float() rejects

\* An inbound message as the handler sees it after recv: wire says how far
\* decrypt_text / json.loads get with it.
Msg(wire, type, user, message, color, a, b) ==
    [wire |-> wire, type |-> type, user |-> user, message |-> message,
     color |-> color, a |-> a, b |-> b]
ObjMsg(type)       == Msg("object", type, Absent, Absent, Absent, AbsentVal, AbsentVal)
ChatMsg(u, m, col) == Msg("object", "chat", u, m, col, AbsentVal, AbsentVal)
MathMsg(a, b)      == Msg("object", "math", Absent, Absent, Absent, a, b)
BadCodec           == Msg("badcodec", Absent, Absent, Absent, Absent, AbsentVal, AbsentVal)
BadJson            == Msg("badjson", Absent, Absent, Absent, Absent, AbsentVal, AbsentVal)
NonObject          == Msg("nonobject", Absent, Absent, Absent, Absent, AbsentVal, AbsentVal)
NoMsg              == Msg("<none>", Absent, Absent, Absent, Absent, AbsentVal, AbsentVal)

\* Messages of the registry and broadcast specification.
RegMsgs == { ObjMsg("time"), ObjMsg("quit"), BadCodec }

\* Messages of the chat log specification.
\* a chat whose message holds a carriage return, and a history request
CrText == "a\rb"
HistMsgs == { ChatMsg("ann", CrText, "red"), ObjMsg("history") }

LogMsgs == { ChatMsg("ann", "hi", "red"), ChatMsg("bob", "yo", Absent) }

\* Messages of the single-connection specification: every branch of the
\* dispatch in client_thread.
ConnMsgs == { ChatMsg("ann", "hi", "red"), ChatMsg(Absent, Absent, Absent),
              ObjMsg("time"), ObjMsg("quote"), ObjMsg("history"), ObjMsg("quit"),
              ObjMsg("bogus"), ObjMsg(Absent),
              MathMsg(Num(1), Num(2)), MathMsg(AbsentVal, Num(2)), MathMsg(NonNum, Num(1)),
              MathMsg(Num(2), NonNum), MathMsg(NumStr(3), Num(1)),
              BadCodec, BadJson, NonObject }

\* the list load_quotes() falls back to, and the lists quotes.json can hold
DefaultQuotes == << "Progress, not perfection.", "Every expert was once a beginner.",
                    "Small steps lead to big change." >>
QuoteLists == { << >>, <<"q1", "q2">>, DefaultQuotes }

VARIABLES
    clients,        \* the registry list: sequence of connection ids
    shutdown_flag,
    quotes,         \* the list load_quotes() returned
    chatLog,        \* lines of CHAT_LOG_FILE
    listenOpen,     \* the listening socket is open
    spc,            \* start_server: "check" | "accept" | "blocked" | "exit"
    hpc,            \* client_thread of each connection
    sockOpen,       \* server side socket of each connection not yet closed
    peerGone,       \* the client closed or reset its end
    cur,            \* message being handled
    resp,           \* response built for it, to be sent
    idx,            \* index of the list iterator in the cleanup loop
    why,            \* how the receive loop ended: "none" | "gone" | "quit" | "error"
    hist,           \* history: per connection, requests received / responses sent
    apc,            \* admin_commands: "read" | "list" | "bcast" | "bsent" | "shut" | "done"
    aidx,           \* index of the admin loop's list iterator
    bStart,         \* history: connections registered when the BROADCAST started
    bLog,           \* history: its send attempts, in order: [c, ok]
    typed,          \* history: the line input() returned last to the admin loop
    frame,          \* admin_commands: the response built for the BROADCAST under way
    plain_text,     \* encryption.py: the text given to encrypt_text
    key,            \* the key given to encrypt_text and decrypt_text
    encrypted,      \* what encrypt_text did with them
    decrypted,      \* what decrypt_text did with the encrypted text
    inbox,          \* adv_client.py: per connection, frames sent to the client and not yet read
    calls           \* per connection, the calls of send_request: request and frame returned

vars == << clients, shutdown_flag, quotes, chatLog, listenOpen, spc, hpc, sockOpen,
           peerGone, cur, resp, idx, why, hist, apc, aidx, bStart, bLog, typed, frame,
           plain_text, key, encrypted, decrypted, inbox, calls >>

srvVars   == << shutdown_flag, listenOpen, spc >>
adminVars == << apc, aidx, bStart, bLog, typed, frame >>
codecVars == << plain_text, key, encrypted, decrypted >>
clientVars == << inbox, calls >>

\* --------------------------------------------------------------- helpers
Range(s) == { s[i] : i \in 1..Len(s) }

Count(s, x) == Cardinality({ i \in 1..Len(s) : s[i] = x })

\* a clients.pop() in place of clients.remove(c)
ListRemoveLast(s, x) == SubSeq(s, 1, Len(s) - 1)

\* list.remove(x): drops the first element equal to x
ListRemove(s, x) ==
    IF x \notin Range(s) THEN s
    ELSE LET p == CHOOSE i \in 1..Len(s) : s[i] = x /\ \A j \in 1..(i-1) : s[j] # x
         IN  SubSeq(s, 1, p-1) \o SubSeq(s, p+1, Len(s))

\* The process lives until start_server returns: the threads are daemons.
Alive == spc # "exit"

\* a build_response that puts the error text into data
build_response_error_in_data(status, data, error) ==
    [status |-> status,
     data   |-> IF status = "error" THEN [kind |-> "error", text |-> error] ELSE data,
     error  |-> NoError]

build_response(status, data, error) == [status |-> status, data |-> data, error |-> error]

\* req.get(key, default)
Get(v, default) == IF v = Absent THEN default ELSE v

\* float(req.get("a", 0))
FloatOk(v) == v.t # "str"

\* a req.get("a", 1)
FloatDefaultOne(v) == IF v.t = "absent" THEN 1 ELSE v.n

Float(v) == IF v.t = "absent" THEN 0 ELSE v.n

\* the line log_chat is given: f"{timestamp} - {user}: {msg}"
LogLine(ts, user, msg) == [ts |-> ts, user |-> user, msg |-> msg]

\* a log_chat that opens the file with mode "w"
log_chat_truncating(log, lines) == IF lines = << >> THEN log ELSE lines

\* log_chat for each line of lines: open(CHAT_LOG_FILE, "a"), one write, close
log_chat(log, lines) == log \o lines

\* what a file opened for reading in text mode (newline=None) gives back for
\* a text written to it: "\r" and "\r\n" come back as "\n". Of the texts of
\* the model only CrText holds a line ending other than the "\n" log_chat
\* adds.
universal_newlines(t) == IF t = CrText THEN "a\nb" ELSE t

\* open(CHAT_LOG_FILE, "r", encoding="utf-8").read(), or "" with no file
read_history(log) ==
    [i \in 1..Len(log) |->
        [ts |-> log[i].ts, user |-> universal_newlines(log[i].user),
         msg |-> universal_newlines(log[i].msg)]]

\* ------------------------------------------------------------------- text
\* A str is the sequence of its characters.
UpperOf == [a |-> "A", b |-> "B", c |-> "C", d |-> "D", h |-> "H", i |-> "I",
            l |-> "L", n |-> "N", o |-> "O", r |-> "R", s |-> "S", t |-> "T",
            u |-> "U", w |-> "W", x |-> "X"]

\* str.upper()
upper(s) == [i \in 1..Len(s) |-> IF s[i] \in DOMAIN UpperOf THEN UpperOf[s[i]] ELSE s[i]]

\* str.strip()
RECURSIVE lstrip(_)
lstrip(s) == IF s # << >> /\ Head(s) = " " THEN lstrip(Tail(s)) ELSE s
RECURSIVE rstrip(_)
rstrip(s) == IF s # << >> /\ s[Len(s)] = " " THEN rstrip(SubSeq(s, 1, Len(s) - 1)) ELSE s
strip(s) == rstrip(lstrip(s))

\* str.startswith(prefix)
startswith(s, prefix) == Len(s) >= Len(prefix) /\ SubSeq(s, 1, Len(prefix)) = prefix

\* str.replace(old, new), old not empty: every occurrence, left to right
RECURSIVE replace(_, _, _)
replace(s, old, new) ==
    IF s = << >> THEN << >>
    ELSE IF startswith(s, old) THEN new \o replace(SubSeq(s, Len(old) + 1, Len(s)), old, new)
    ELSE << Head(s) >> \o replace(Tail(s), old, new)


\* ---------------------------------------------------- client/encryption.py
\* A str is the sequence of its code points, a bytes object the sequence of
\* its bytes.  A call either returns a value or raises.
Returned(v) == [r |-> "ok", v |-> v]
Raised      == [r |-> "raise", v |-> << >>]
NotCalled   == [r |-> "none", v |-> << >>]

KeyNone    == << -1 >>               \* key=None
SECRET_KEY == << 109, 121, 95, 115, 105, 109, 112, 108, 101, 95, 107, 101, 121 >>

\* str.encode("utf-8") of a str without surrogates
RECURSIVE utf8_encode(_)
utf8_encode(s) ==
    IF s = << >> THEN << >>
    ELSE LET cp == Head(s)
             bs == IF cp < 128 THEN << cp >>
                   ELSE IF cp < 2048 THEN << 192 + (cp \div 64), 128 + (cp % 64) >>
                   ELSE IF cp < 65536
                     THEN << 224 + (cp \div 4096), 128 + ((cp \div 64) % 64), 128 + (cp % 64) >>
                   ELSE << 240 + (cp \div 262144), 128 + ((cp \div 4096) % 64),
                           128 + ((cp \div 64) % 64), 128 + (cp % 64) >>
         IN  bs \o utf8_encode(Tail(s))

\* bytes.decode("utf-8"): strict, raises on an invalid sequence
RECURSIVE utf8_decode(_)
utf8_decode(b) ==
    IF b = << >> THEN Returned(<< >>)
    ELSE LET n == IF b[1] < 128 THEN 1
                  ELSE IF b[1] >= 194 /\ b[1] < 224 THEN 2
                  ELSE IF b[1] >= 224 /\ b[1] < 240 THEN 3
                  ELSE IF b[1] >= 240 /\ b[1] < 245 THEN 4
                  ELSE 0
         IN  IF n = 0 \/ Len(b) < n \/ \E j \in 2..n : b[j] \notin 128..191 THEN Raised
             ELSE LET cp == CASE n = 1 -> b[1]
                              [] n = 2 -> (b[1] - 192) * 64 + (b[2] - 128)
                              [] n = 3 -> (b[1] - 224) * 4096 + (b[2] - 128) * 64 + (b[3] - 128)
                              [] n = 4 -> (b[1] - 240) * 262144 + (b[2] - 128) * 4096
                                             + (b[3] - 128) * 64 + (b[4] - 128)
                      rest == utf8_decode(SubSeq(b, n + 1, Len(b)))
                  IN  IF \/ n = 3 /\ (cp < 2048 \/ cp \in 55296..57343)
                         \/ n = 4 /\ (cp < 65536 \/ cp > 1114111)
                         \/ rest.r # "ok"
                        THEN Raised
                        ELSE Returned(<< cp >> \o rest.v)

\* byte ^ key_byte on 8-bit values
RECURSIVE XorBits(_, _, _)
XorBits(a, b, n) ==
    IF n = 0 THEN 0
    ELSE (((a % 2) + (b % 2)) % 2) + 2 * XorBits(a \div 2, b \div 2, n - 1)

\* _xor_bytes(data, key): key[index % key_len] raises ZeroDivisionError when
\* the key is empty and there is a byte to combine
xor_bytes(data, k) ==
    IF data # << >> /\ Len(k) = 0 THEN Raised
    ELSE Returned([i \in 1..Len(data) |-> XorBits(data[i], k[((i - 1) % Len(k)) + 1], 8)])

\* the base64 alphabet as ASCII codes, "=" is 61
B64Code(i) ==
    IF i < 26 THEN 65 + i
    ELSE IF i < 52 THEN 97 + (i - 26)
    ELSE IF i < 62 THEN 48 + (i - 52)
    ELSE IF i = 62 THEN 43 ELSE 47
B64Index(code) == IF \E i \in 0..63 : B64Code(i) = code
                    THEN CHOOSE i \in 0..63 : B64Code(i) = code
                    ELSE -1

\* base64.b64encode
RECURSIVE b64encode(_)
b64encode(b) ==
    IF b = << >> THEN << >>
    ELSE IF Len(b) = 1 THEN
        << B64Code(b[1] \div 4), B64Code((b[1] % 4) * 16), 61, 61 >>
    ELSE IF Len(b) = 2 THEN
        << B64Code(b[1] \div 4), B64Code((b[1] % 4) * 16 + (b[2] \div 16)),
           B64Code((b[2] % 16) * 4), 61 >>
    ELSE
        << B64Code(b[1] \div 4), B64Code((b[1] % 4) * 16 + (b[2] \div 16)),
           B64Code((b[2] % 16) * 4 + (b[3] \div 64)), B64Code(b[3] % 64) >>
          \o b64encode(SubSeq(b, 4, Len(b)))

\* base64.b64decode of text in the alphabet: groups of four characters, the
\* last one padded; anything else raises binascii.Error
RECURSIVE b64decode(_)
b64decode(t) ==
    IF t = << >> THEN Returned(<< >>)
    ELSE IF Len(t) < 4 THEN Raised
    ELSE LET i1 == B64Index(t[1])
             i2 == B64Index(t[2])
             i3 == B64Index(t[3])
             i4 == B64Index(t[4])
             rest == b64decode(SubSeq(t, 5, Len(t)))
         IN  IF i1 < 0 \/ i2 < 0 THEN Raised
             ELSE IF t[3] = 61 /\ t[4] = 61 THEN
                 IF Len(t) = 4 THEN Returned(<< i1 * 4 + (i2 \div 16) >>) ELSE Raised
             ELSE IF t[4] = 61 THEN
                 IF Len(t) = 4 /\ i3 >= 0
                   THEN Returned(<< i1 * 4 + (i2 \div 16), (i2 % 16) * 16 + (i3 \div 4) >>)
                   ELSE Raised
             ELSE IF i3 < 0 \/ i4 < 0 \/ rest.r # "ok" THEN Raised
             ELSE Returned(<< i1 * 4 + (i2 \div 16), (i2 % 16) * 16 + (i3 \div 4),
                              (i3 % 4) * 64 + i4 >> \o rest.v)

\* if key is None: key = SECRET_KEY
KeyOf(k) == IF k = KeyNone THEN SECRET_KEY ELSE k

\* encrypt_text(plain_text, key)
encrypt_text(p, k) ==
    LET xored == xor_bytes(utf8_encode(p), utf8_encode(KeyOf(k)))
    IN  IF xored.r # "ok" THEN Raised
        ELSE utf8_decode(b64encode(xored.v))

\* decrypt_text(cipher_text, key)
decrypt_text(c, k) ==
    LET cipher_bytes == b64decode(utf8_encode(c))
        xored_back == IF cipher_bytes.r = "ok"
                        THEN xor_bytes(cipher_bytes.v, utf8_encode(KeyOf(k)))
                        ELSE Raised
    IN  IF xored_back.r # "ok" THEN Raised
        ELSE utf8_decode(xored_back.v)

\* plaintexts and keys the codec is called with: ASCII, two-byte and
\* three-byte characters; the default key, an empty key, short keys
PlainChars == { 97, 233, 8364 }
Plains     == UNION { [1..n -> PlainChars] : n \in 0..MaxPlain }
Keys       == { KeyNone, << >>, << 107 >>, << 107, 233 >> }

\* --------------------------------------------------------- request dispatch
Outcome(exit, r, lines) == [exit |-> exit, resp |-> r, lines |-> lines]

\* What one pass of the loop body of client_thread does with a received
\* message: "drop" (continue without a reply), "send" (a reply is built and
\* sent) or "raise" (an exception leaves the loop through finally).
\* lines is what log_chat appended on the way.
Outcomes(m, qs, log) ==
    IF m.wire \in {"badcodec", "badjson"} THEN
        { Outcome("drop", NoResp, << >>) }
    ELSE IF m.wire = "nonobject" THEN
        { Outcome("raise", NoResp, << >>) }          \* req.get: AttributeError
    ELSE IF m.type = "chat" THEN
        LET user  == Get(m.user, "Unknown")
            msg   == Get(m.message, "")
            color == Get(m.color, "reset")
        IN  { Outcome("send",
                      build_response("ok",
                          [kind |-> "chat", reply |-> <<user, msg>>, color |-> color],
                          NoError),
                      << LogLine(ts, user, msg) >>) : ts \in Times }
    ELSE IF m.type = "time" THEN
        { Outcome("send",
                  build_response("ok", [kind |-> "time", server_time |-> ts], NoError),
                  << >>) : ts \in Times }
    ELSE IF m.type = "math" THEN
        IF FloatOk(m.a) /\ FloatOk(m.b) THEN
            { Outcome("send",
                      build_response("ok",
                          [kind |-> "math", a |-> Float(m.a), b |-> Float(m.b),
                           sum |-> Float(m.a) + Float(m.b)],
                          NoError),
                      << >>) }
        ELSE
            { Outcome("send",
                      build_response("error", NoData,
                                     <<"could not convert string to float">>),
                      << >>) }
    ELSE IF m.type = "quote" THEN
        IF qs = << >> THEN
            { Outcome("raise", NoResp, << >>) }      \* random.choice: IndexError
        ELSE
            { Outcome("send",
                      build_response("ok", [kind |-> "quote", quote |-> qs[i]], NoError),
                      << >>) : i \in 1..Len(qs) }
    ELSE IF m.type = "history" THEN
        { Outcome("send",
                  build_response("ok", [kind |-> "history", history |-> read_history(log)],
                                 NoError),
                  << >>) }
    ELSE IF m.type = "quit" THEN
        { Outcome("send",
                  build_response("ok", [kind |-> "quit", message |-> "Goodbye!"], NoError),
                  << >>) }
    ELSE
        { Outcome("send",
                  build_response("error", NoData, <<"Unknown request type">>),
                  << >>) }

\* history events
ReqEv(k, m)     == [ev |-> "req",  k |-> k, m |-> m, r |-> NoResp]
RespEv(k, m, r) == [ev |-> "resp", k |-> k, m |-> m, r |-> r]
NumReqs(h) == Cardinality({ i \in 1..Len(h) : h[i].ev = "req" })

\* conn.sendall on connection c: TRUE when it returns, FALSE when it raises.
\* A closed socket always raises; a send to a peer that is gone may or may not.
SendOutcomes(c) ==
    IF ~sockOpen[c] THEN {FALSE}
    ELSE IF peerGone[c] THEN {TRUE, FALSE}
    ELSE {TRUE}

\* ------------------------------------------------------------------- Init
\* the server after load_quotes(), before its first step
InitServer(qs) ==
    /\ clients = << >>
    /\ shutdown_flag = FALSE
    /\ quotes = qs
    /\ chatLog = << >>
    /\ listenOpen = TRUE
    /\ spc = "check"
    /\ hpc = [c \in Conns |-> "none"]
    /\ sockOpen = [c \in Conns |-> TRUE]
    /\ peerGone = [c \in Conns |-> FALSE]
    /\ cur = [c \in Conns |-> NoMsg]
    /\ resp = [c \in Conns |-> NoResp]
    /\ idx = [c \in Conns |-> 1]
    /\ why = [c \in Conns |-> "none"]
    /\ hist = [c \in Conns |-> << >>]
    /\ apc = "read"
    /\ aidx = 1
    /\ bStart = {}
    /\ bLog = << >>
    /\ typed = << >>
    /\ frame = NoResp

\* the codec called on plaintext p with key k
InitCodec(p, k) ==
    /\ plain_text = p
    /\ key = k
    /\ encrypted = NotCalled
    /\ decrypted = NotCalled

\* adv_client.py: no frame in flight, send_request not yet called
InitClient ==
    /\ inbox = [c \in Conns |-> << >>]
    /\ calls = [c \in Conns |-> << >>]

InitWith(qs) == InitServer(qs) /\ InitCodec(<< >>, KeyNone) /\ InitClient

\* quotes.json is missing: load_quotes() returns its built-in list
Init == InitWith(DefaultQuotes)

\* quotes.json holds any list, the empty one included
InitAnyQuotes == \E qs \in QuoteLists : InitWith(qs)

\* ----------------------------------------------------------- start_server
\* while not shutdown_flag: ...; leaving the with block closes the socket
start_server_check ==
    /\ spc = "check"
    /\ IF shutdown_flag
         THEN spc' = "exit" /\ listenOpen' = FALSE
         ELSE spc' = "accept" /\ UNCHANGED listenOpen
    /\ UNCHANGED << clients, shutdown_flag, quotes, codecVars, clientVars, chatLog, hpc, sockOpen, peerGone,
                    cur, resp, idx, why, hist, adminVars >>

\* conn, addr = s.accept(); Thread(target=client_thread, ...).start()
start_server_accept(c) ==
    /\ \/ spc = "accept" /\ listenOpen
       \/ spc = "blocked"
    /\ hpc[c] = "none"
    /\ \A d \in Conns : d < c => hpc[d] # "none"
    /\ hpc' = [hpc EXCEPT ![c] = "start"]
    /\ spc' = "check"
    /\ UNCHANGED << clients, shutdown_flag, quotes, codecVars, clientVars, chatLog, listenOpen, sockOpen,
                    peerGone, cur, resp, idx, why, hist, adminVars >>

\* The listening socket was closed while the main thread was in s.accept().
\* Where close() does not wake a blocked accept (Linux) the call goes on
\* waiting on the closed socket and still returns the next connection;
\* elsewhere it raises, as does an accept called after the close.
start_server_accept_stays ==
    /\ spc = "accept"
    /\ ~listenOpen
    /\ spc' = "blocked"
    /\ UNCHANGED << clients, shutdown_flag, quotes, codecVars, clientVars, chatLog, listenOpen, hpc, sockOpen,
                    peerGone, cur, resp, idx, why, hist, adminVars >>

\* accept on the closed listening socket raises: except: break
start_server_accept_fail ==
    /\ spc = "accept"
    /\ ~listenOpen
    /\ spc' = "exit"
    /\ UNCHANGED << clients, shutdown_flag, quotes, codecVars, clientVars, chatLog, listenOpen, hpc, sockOpen,
                    peerGone, cur, resp, idx, why, hist, adminVars >>

\* ---------------------------------------------------------- client_thread
\* clients.append((conn, addr))
client_thread_register(c) ==
    /\ Alive
    /\ hpc[c] = "start"
    /\ clients' = Append(clients, c)
    /\ hpc' = [hpc EXCEPT ![c] = "recv"]
    /\ UNCHANGED << srvVars, quotes, codecVars, clientVars, chatLog, sockOpen, peerGone, cur, resp, idx, why,
                    hist, adminVars >>

\* encrypted_data = conn.recv(4096) returns a message
client_thread_recv(c, m) ==
    /\ Alive
    /\ hpc[c] = "recv"
    /\ ~peerGone[c]
    /\ cur' = [cur EXCEPT ![c] = m]
    /\ hpc' = [hpc EXCEPT ![c] = "got"]
    /\ UNCHANGED << srvVars, clients, quotes, codecVars, clientVars, chatLog, sockOpen, peerGone, resp, idx,
                    why, adminVars >>

\* conn.recv raises ConnectionResetError, or returns b"": both break
client_thread_recv_end(c) ==
    /\ Alive
    /\ hpc[c] = "recv"
    /\ peerGone[c]
    /\ why' = [why EXCEPT ![c] = "gone"]
    /\ hpc' = [hpc EXCEPT ![c] = "close"]
    /\ UNCHANGED << srvVars, clients, quotes, codecVars, clientVars, chatLog, sockOpen, peerGone, cur, resp,
                    idx, hist, adminVars >>

\* a loop body that leaves the loop where it should continue
AfterBodyBreakOnDrop(o) ==
    CASE o.exit = "drop"  -> "close"
      [] o.exit = "send"  -> "send"
      [] o.exit = "raise" -> "close"

\* a loop body whose error replies are built and never sent
AfterBodyUnsentError(o) ==
    CASE o.exit = "drop"  -> "recv"
      [] o.exit = "send"  -> IF o.resp.status = "error" THEN "recv" ELSE "send"
      [] o.exit = "raise" -> "close"

\* where the loop goes after the body has run with outcome o
AfterBody(o) ==
    CASE o.exit = "drop"  -> "recv"
      [] o.exit = "send"  -> "send"
      [] o.exit = "raise" -> "close"

\* decrypt_text, json.loads, the dispatch on req_type up to the sendall
client_thread_handle(c) ==
    /\ Alive
    /\ hpc[c] = "got"
    /\ \E o \in Outcomes(cur[c], quotes, chatLog) :
          /\ chatLog' = log_chat(chatLog, o.lines)
          /\ resp' = [resp EXCEPT ![c] = o.resp]
          /\ hpc' = [hpc EXCEPT ![c] = AfterBody(o)]
          /\ cur' = [cur EXCEPT ![c] = IF o.exit = "send" THEN @ ELSE NoMsg]
          /\ why' = [why EXCEPT ![c] = IF o.exit = "raise" THEN "error" ELSE @]
    /\ UNCHANGED << srvVars, clients, quotes, codecVars, clientVars, sockOpen, peerGone, idx, hist, adminVars >>

\* where the loop goes after conn.sendall(...) returned for request m
AfterSend(m) == IF m.type = "quit" THEN "close" ELSE "recv"

\* conn.sendall(encrypt_text(resp).encode("utf-8")) returns (ok) or raises,
\* then break after a quit
client_thread_send(c, ok) ==
    /\ Alive
    /\ hpc[c] = "send"
    /\ ok \in SendOutcomes(c)
    /\ IF ok
         THEN /\ hpc' = [hpc EXCEPT ![c] = AfterSend(cur[c])]
              /\ why' = [why EXCEPT ![c] = IF AfterSend(cur[c]) = "close" THEN "quit" ELSE @]
         ELSE /\ hpc' = [hpc EXCEPT ![c] = "close"]
              /\ why' = [why EXCEPT ![c] = "error"]
    /\ cur' = [cur EXCEPT ![c] = NoMsg]
    /\ resp' = [resp EXCEPT ![c] = NoResp]
    /\ UNCHANGED << srvVars, clients, quotes, codecVars, calls, chatLog, sockOpen, peerGone, idx, adminVars >>

\* finally: conn.close(), and the for loop's iterator is created
client_thread_close(c) ==
    /\ Alive
    /\ hpc[c] = "close"
    /\ sockOpen' = [sockOpen EXCEPT ![c] = FALSE]
    /\ idx' = [idx EXCEPT ![c] = 1]
    /\ hpc' = [hpc EXCEPT ![c] = "scan"]
    /\ UNCHANGED << srvVars, clients, quotes, codecVars, clientVars, chatLog, peerGone, cur, resp, why, hist,
                    adminVars >>

\* the iterator's next position after it has looked at position i
ScanAdvance(i) == i + 1

\* for c in clients: if c[0] is conn: -- one fetch of the list iterator
client_thread_scan(c) ==
    /\ Alive
    /\ hpc[c] = "scan"
    /\ IF idx[c] <= Len(clients)
         THEN /\ hpc' = [hpc EXCEPT ![c] = IF clients[idx[c]] = c THEN "remove" ELSE "scan"]
              /\ idx' = [idx EXCEPT ![c] = ScanAdvance(@)]
         ELSE /\ hpc' = [hpc EXCEPT ![c] = "done"]
              /\ idx' = [idx EXCEPT ![c] = 1]
    /\ UNCHANGED << srvVars, clients, quotes, codecVars, clientVars, chatLog, sockOpen, peerGone, cur, resp,
                    why, hist, adminVars >>

\* clients.remove(c); break
client_thread_remove(c) ==
    /\ Alive
    /\ hpc[c] = "remove"
    /\ clients' = ListRemove(clients, c)
    /\ hpc' = [hpc EXCEPT ![c] = "done"]
    /\ idx' = [idx EXCEPT ![c] = 1]
    /\ UNCHANGED << srvVars, quotes, codecVars, clientVars, chatLog, sockOpen, peerGone, cur, resp, why, hist,
                    adminVars >>

\* the client leaves: its with block closes the socket, or the process dies
peer_disconnect(c) ==
    /\ Alive
    /\ hpc[c] # "none"
    /\ sockOpen[c]
    /\ ~peerGone[c]
    /\ peerGone' = [peerGone EXCEPT ![c] = TRUE]
    /\ UNCHANGED << srvVars, clients, quotes, codecVars, clientVars, chatLog, hpc, sockOpen, cur, resp, idx,
                    why, hist, adminVars >>

\* --------------------------------------------------------- admin_commands
\* the literals of admin_commands
LIST      == <<"L", "I", "S", "T">>
BROADCAST == <<"B", "R", "O", "A", "D", "C", "A", "S", "T", " ">>
SHUTDOWN  == <<"S", "H", "U", "T", "D", "O", "W", "N">>

\* a broadcast frame whose text is the command as typed, keyword included
BroadcastFrameWholeLine(cmd) ==
    build_response("ok", [kind |-> "broadcast", reply |-> cmd, color |-> "yellow"], NoError)

\* msg = cmd.replace("BROADCAST ", ""); resp = build_response("ok", {...})
BroadcastFrame(cmd) ==
    build_response("ok",
        [kind |-> "broadcast", reply |-> replace(cmd, BROADCAST, << >>), color |-> "yellow"],
        NoError)

\* an if / elif chain that tests every keyword with startswith
BranchByPrefix(cmd) ==
    IF startswith(cmd, LIST) THEN "LIST"
    ELSE IF startswith(cmd, BROADCAST) THEN "BROADCAST"
    ELSE IF startswith(cmd, SHUTDOWN) THEN "SHUTDOWN"
    ELSE "OTHER"

\* the branch of the if / elif chain that the command takes
Branch(cmd) ==
    IF cmd = LIST THEN "LIST"
    ELSE IF startswith(cmd, BROADCAST) THEN "BROADCAST"
    ELSE IF cmd = SHUTDOWN THEN "SHUTDOWN"
    ELSE "OTHER"

\* lines the operator types in the specifications of the whole server
ListLine      == <<"l", "i", "s", "t">>
BroadcastLine == <<"b", "r", "o", "a", "d", "c", "a", "s", "t", " ", "h", "i">>
ShutdownLine  == <<"S", "h", "u", "t", "d", "o", "w", "n">>
OtherLine     == <<"w", "h", "o">>
AdminLines    == { ListLine, BroadcastLine, ShutdownLine, OtherLine }

\* lines the operator types in the specification of the console: the
\* keyword in three spellings followed by every text of up to MaxText
\* characters, a text that holds the keyword, and lines that are no command
Keywords   == { <<"B", "R", "O", "A", "D", "C", "A", "S", "T">>, <<"b", "r", "o", "a", "d", "c", "a", "s", "t">>, <<"B", "r", "o", "a", "d", "c", "a", "s", "t">> }
TextChars  == { "h", "I", " " }
Texts      == UNION { [1..k -> TextChars] : k \in 1..MaxText }
TypedLines == { kw \o << " " >> \o t : kw \in Keywords, t \in Texts }
                 \cup AdminLines
                 \cup { <<"b", "r", "o", "a", "d", "c", "a", "s", "t", " ", "b", "r", "o", "a", "d", "c", "a", "s", "t", " ", "h">>, <<" ", "L", "I", "S", "T", " ">>, <<"b", "r", "o", "a", "d", "c", "a", "s", "t">>, <<"s", "h", "u", "t", "d", "o", "w", "n", " ", "n", "o", "w">>, << >> }

\* cmd = input().strip().upper() and the branch taken
admin_read(line) ==
    /\ Alive
    /\ apc = "read"
    /\ LET cmd == upper(strip(line)) IN
       CASE Branch(cmd) = "LIST" ->
              /\ apc' = "list"
              /\ aidx' = 1
              /\ typed' = line
              /\ UNCHANGED << shutdown_flag, bStart, bLog, frame >>
         [] Branch(cmd) = "BROADCAST" ->
              /\ apc' = "bcast"
              /\ aidx' = 1
              /\ bStart' = Range(clients)
              /\ bLog' = << >>
              /\ typed' = line
              /\ frame' = BroadcastFrame(cmd)
              /\ UNCHANGED shutdown_flag
         [] Branch(cmd) = "SHUTDOWN" ->
              /\ shutdown_flag' = TRUE
              /\ apc' = "shut"
              /\ typed' = line
              /\ UNCHANGED << aidx, bStart, bLog, frame >>
         [] OTHER ->
              /\ typed' = line
              /\ UNCHANGED << shutdown_flag, apc, aidx, bStart, bLog, frame >>
    /\ UNCHANGED << clients, quotes, codecVars, clientVars, chatLog, listenOpen, spc, hpc, sockOpen, peerGone,
                    cur, resp, idx, why, hist >>

\* for _, a in clients: print(" -", a)
admin_list_step ==
    /\ Alive
    /\ apc = "list"
    /\ IF aidx <= Len(clients)
         THEN aidx' = aidx + 1 /\ UNCHANGED apc
         ELSE aidx' = 1 /\ apc' = "read"
    /\ UNCHANGED << srvVars, clients, quotes, codecVars, clientVars, chatLog, hpc, sockOpen, peerGone, cur, resp,
                    idx, why, hist, bStart, bLog, typed, frame >>

\* a broadcast loop without the try/except around sendall
BroadcastAbortOnFailure(ok, i) ==
    IF ok THEN [pc |-> "bcast", idx |-> i + 1] ELSE [pc |-> "done", idx |-> i]

\* the admin loop's state after one send of the broadcast loop, ok or not
BroadcastAfterSend(ok, i) == [pc |-> "bcast", idx |-> i + 1]

\* for conn, _ in clients: try: conn.sendall(encrypted) except: pass
admin_broadcast_step ==
    /\ Alive
    /\ apc = "bcast"
    /\ IF aidx <= Len(clients)
         THEN \E ok \in SendOutcomes(clients[aidx]) :
                 /\ bLog' = Append(bLog, [c |-> clients[aidx], ok |-> ok])
                 /\ apc' = BroadcastAfterSend(ok, aidx).pc
                 /\ aidx' = BroadcastAfterSend(ok, aidx).idx
         ELSE /\ apc' = "bsent"
              /\ aidx' = 1
              /\ UNCHANGED bLog
    /\ UNCHANGED << srvVars, clients, quotes, codecVars, calls, chatLog, hpc, sockOpen, peerGone, cur, resp,
                    idx, why, hist, bStart, typed, frame >>

\* print("[SERVER] Broadcast sent.\n"), and back to input(); resp is not
\* read again
admin_broadcast_done ==
    /\ Alive
    /\ apc = "bsent"
    /\ apc' = "read"
    /\ bStart' = {}
    /\ bLog' = << >>
    /\ frame' = NoResp
    /\ UNCHANGED << srvVars, clients, quotes, codecVars, clientVars, chatLog, hpc, sockOpen, peerGone, cur, resp,
                    idx, why, hist, aidx, typed >>

\* server_socket.close(); break
admin_shutdown_close ==
    /\ Alive
    /\ apc = "shut"
    /\ listenOpen' = FALSE
    /\ apc' = "done"
    /\ UNCHANGED << clients, shutdown_flag, quotes, codecVars, clientVars, chatLog, spc, hpc, sockOpen, peerGone,
                    cur, resp, idx, why, hist, aidx, bStart, bLog, typed, frame >>

\* ------------------------------------------------- server.py: run_server
\* The basic server is one thread.  Its state is held in the same variables:
\* spc is where run_server is ("check": not yet listening, "accept": in
\* server_socket.accept(), "serve": in the inner loop, "exit": an exception
\* has left run_server), hpc[c] where the inner loop is for client c.  It
\* has no registry, no log and no console; its messages are plain JSON, so
\* the wire kind "badcodec" is a message that is not UTF-8.

\* handle_request(request, quotes): the responses it can return
handle_request(request, qs) ==
    IF request.type = "chat" THEN
        { build_response("ok",
              [kind |-> "chat",
               reply |-> <<"Server received your message at ", ts, Get(request.message, "")>>],
              NoError) : ts \in Times }
    ELSE IF request.type = "time" THEN
        { build_response("ok", [kind |-> "time", server_time |-> ts], NoError) : ts \in Times }
    ELSE IF request.type = "math" THEN
        IF FloatOk(request.a) /\ FloatOk(request.b) THEN
            { build_response("ok",
                  [kind |-> "math", a |-> Float(request.a), b |-> Float(request.b),
                   sum |-> Float(request.a) + Float(request.b)],
                  NoError) }
        ELSE
            { build_response("error", NoData, <<"could not convert string to float">>) }
    ELSE IF request.type = "quote" THEN
        IF qs = << >> THEN
            { build_response("error", NoData, <<"No quotes available.">>) }
        ELSE
            { build_response("ok", [kind |-> "quote", quote |-> qs[i]], NoError)
                : i \in 1..Len(qs) }
    ELSE IF request.type = "quit" THEN
        { build_response("ok", [kind |-> "quit", message |-> "Connection closing."], NoError) }
    ELSE
        { build_response("error", NoData, <<"Unknown request type: ", request.type>>) }

\* one pass of the inner loop of run_server from data.decode to the sendall
RunServerOutcomes(m, qs) ==
    IF m.wire = "badcodec" THEN
        { Outcome("raise", NoResp, << >>) }          \* data.decode: UnicodeDecodeError
    ELSE IF m.wire = "badjson" THEN
        { Outcome("send", build_response("error", NoData, <<"Invalid JSON">>), << >>) }
    ELSE IF m.wire = "nonobject" THEN
        { Outcome("raise", NoResp, << >>) }          \* request.get: AttributeError
    ELSE
        { Outcome("send", r, << >>) : r \in handle_request(m, qs) }

\* an exception leaves run_server: both with blocks close their sockets
RunServerRaise(c) ==
    /\ sockOpen' = [sockOpen EXCEPT ![c] = FALSE]
    /\ listenOpen' = FALSE
    /\ hpc' = [hpc EXCEPT ![c] = "done"]
    /\ why' = [why EXCEPT ![c] = "error"]
    /\ spc' = "exit"

\* the inner loop ends by break: the with block closes the client socket
RunServerBreak(c, reason) ==
    /\ sockOpen' = [sockOpen EXCEPT ![c] = FALSE]
    /\ hpc' = [hpc EXCEPT ![c] = "done"]
    /\ why' = [why EXCEPT ![c] = reason]
    /\ spc' = "accept"
    /\ UNCHANGED listenOpen

\* load_quotes, bind, listen
run_server_listen ==
    /\ spc = "check"
    /\ spc' = "accept"
    /\ UNCHANGED << clients, shutdown_flag, quotes, codecVars, clientVars, chatLog, listenOpen, hpc, sockOpen,
                    peerGone, cur, resp, idx, why, hist, adminVars >>

\* a server that hands the client to a thread and accepts again
AfterAcceptThreaded == "accept"

\* where run_server is after accept has returned: in the inner loop
AfterAccept == "serve"

\* client_socket, client_address = server_socket.accept()
run_server_accept(c) ==
    /\ spc = "accept"
    /\ hpc[c] = "none"
    /\ \A d \in Conns : d < c => hpc[d] # "none"
    /\ hpc' = [hpc EXCEPT ![c] = "recv"]
    /\ spc' = AfterAccept
    /\ UNCHANGED << clients, shutdown_flag, quotes, codecVars, clientVars, chatLog, listenOpen, sockOpen,
                    peerGone, cur, resp, idx, why, hist, adminVars >>

\* data = client_socket.recv(1024) returns a message
run_server_recv(c, m) ==
    /\ Alive
    /\ hpc[c] = "recv"
    /\ ~peerGone[c]
    /\ cur' = [cur EXCEPT ![c] = m]
    /\ hpc' = [hpc EXCEPT ![c] = "got"]
    /\ UNCHANGED << srvVars, clients, quotes, codecVars, clientVars, chatLog, sockOpen, peerGone, resp, idx,
                    why, adminVars >>

\* recv returns b"": break
run_server_recv_eof(c) ==
    /\ Alive
    /\ hpc[c] = "recv"
    /\ peerGone[c]
    /\ RunServerBreak(c, "gone")
    /\ UNCHANGED << clients, shutdown_flag, quotes, codecVars, clientVars, chatLog, peerGone, cur, resp, idx,
                    hist, adminVars >>

\* recv raises ConnectionResetError: nothing catches it
run_server_recv_reset(c) ==
    /\ Alive
    /\ hpc[c] = "recv"
    /\ peerGone[c]
    /\ RunServerRaise(c)
    /\ UNCHANGED << clients, shutdown_flag, quotes, codecVars, clientVars, chatLog, peerGone, cur, resp, idx,
                    hist, adminVars >>

\* data.decode, json.loads, handle_request, up to the sendall
run_server_handle(c) ==
    /\ Alive
    /\ hpc[c] = "got"
    /\ \E o \in RunServerOutcomes(cur[c], quotes) :
          IF o.exit = "raise"
            THEN /\ RunServerRaise(c)
                 /\ cur' = [cur EXCEPT ![c] = NoMsg]
                 /\ UNCHANGED resp
            ELSE /\ resp' = [resp EXCEPT ![c] = o.resp]
                 /\ hpc' = [hpc EXCEPT ![c] = "send"]
                 /\ UNCHANGED << srvVars, sockOpen, cur, why >>
    /\ UNCHANGED << clients, shutdown_flag, quotes, codecVars, clientVars, chatLog, peerGone, idx, hist,
                    adminVars >>

\* client_socket.sendall(...) returns (ok) or raises; after a reply to an
\* object: if request_obj.get("type") == "quit": break
run_server_send(c, ok) ==
    /\ Alive
    /\ hpc[c] = "send"
    /\ ok \in SendOutcomes(c)
    /\ IF ~ok THEN RunServerRaise(c)
       ELSE IF cur[c].wire = "object" /\ cur[c].type = "quit" THEN RunServerBreak(c, "quit")
       ELSE /\ hpc' = [hpc EXCEPT ![c] = "recv"]
            /\ UNCHANGED << srvVars, sockOpen, why >>
    /\ cur' = [cur EXCEPT ![c] = NoMsg]
    /\ resp' = [resp EXCEPT ![c] = NoResp]
    /\ UNCHANGED << clients, shutdown_flag, quotes, codecVars, clientVars, chatLog, peerGone, idx, adminVars >>

\* ---------------------------------------------------- the codec's calls
\* encrypted = encrypt_text(plain_text, key)
encrypt_text_call ==
    /\ encrypted = NotCalled
    /\ encrypted' = encrypt_text(plain_text, key)
    /\ UNCHANGED << clients, shutdown_flag, quotes, chatLog, listenOpen, spc, hpc,
                    sockOpen, peerGone, cur, resp, idx, why, hist, adminVars, clientVars,
                    plain_text, key, decrypted >>

\* decrypt_text(encrypted, key)
decrypt_text_call ==
    /\ encrypted.r = "ok"
    /\ decrypted = NotCalled
    /\ decrypted' = decrypt_text(encrypted.v, key)
    /\ UNCHANGED << clients, shutdown_flag, quotes, chatLog, listenOpen, spc, hpc,
                    sockOpen, peerGone, cur, resp, idx, why, hist, adminVars, clientVars,
                    plain_text, key, encrypted >>

\* ------------------------------------------------------- adv_client.py
\* a frame on its way to the client: the response r, and as history the
\* number k of the request it answers, 0 for a broadcast
Frame(k, r) == [k |-> k, r |-> r]
NoFrame     == Frame(-1, NoResp)

\* requests the console client builds
ClientMsgs == { ObjMsg("time"), ChatMsg("ann", "hi", "red") }

\* the client of c is inside send_request, blocked in sock.recv(4096)
Waiting(c) == calls[c] # << >> /\ calls[c][Len(calls[c])].got = NoFrame

\* the requests the client of c has sent and the server has not yet received
Unreceived(c) == Len(calls[c]) - NumReqs(hist[c])

\* send_request: json.dumps(req), encrypt_text, sock.sendall
send_request_send(c, m) ==
    /\ Alive
    /\ hpc[c] # "none"
    /\ sockOpen[c] /\ ~peerGone[c]
    /\ ~Waiting(c)
    /\ calls' = [calls EXCEPT ![c] = Append(@, [req |-> m, got |-> NoFrame])]
    /\ UNCHANGED << srvVars, clients, quotes, codecVars, chatLog, hpc, sockOpen, peerGone, cur,
                    resp, idx, why, hist, adminVars, inbox >>

\* send_request: sock.recv(4096) returns the next frame in the socket, which
\* decrypt_text and json.loads turn into the value returned
send_request_recv(c) ==
    /\ Waiting(c)
    /\ inbox[c] # << >>
    /\ calls' = [calls EXCEPT ![c][Len(calls[c])].got = Head(inbox[c])]
    /\ inbox' = [inbox EXCEPT ![c] = Tail(@)]
    /\ UNCHANGED << srvVars, clients, quotes, codecVars, chatLog, hpc, sockOpen, peerGone, cur,
                    resp, idx, why, hist, adminVars >>

\* the reply a handler's sendall has written reaches the client's socket
DeliverReply(c, ok) ==
    inbox' = [inbox EXCEPT ![c] = IF ok THEN Append(@, Frame(NumReqs(hist[c]), resp[c]))
                                        ELSE @]

\* the frame a send of the broadcast loop has written reaches the socket of
\* the client it was sent to
DeliverBroadcast ==
    IF Len(bLog') > Len(bLog) /\ bLog'[Len(bLog')].ok
      THEN inbox' = [inbox EXCEPT ![bLog'[Len(bLog')].c] = Append(@, Frame(0, frame))]
      ELSE UNCHANGED inbox

\* ------------------------------------------------------------------- Next
\* history: message m was received on connection c
RecordReq(c, m) == hist' = [hist EXCEPT ![c] = Append(@, ReqEv(NumReqs(@) + 1, m))]

\* history: the response to the message being handled was sent (ok), or not
RecordResp(c, ok) ==
    hist' = [hist EXCEPT ![c] = IF ok THEN Append(@, RespEv(NumReqs(@), cur[c], resp[c]))
                                      ELSE @]

\* Clients that connect and leave without a request, and an operator who
\* only broadcasts.
NextBroadcast ==
    \/ start_server_check
    \/ admin_broadcast_step /\ UNCHANGED inbox
    \/ admin_broadcast_done
    \/ admin_read(BroadcastLine)
    \/ \E c \in Conns : start_server_accept(c)
    \/ \E c \in Conns : client_thread_register(c)
    \/ \E c \in Conns : client_thread_recv_end(c)
    \/ \E c \in Conns : client_thread_close(c)
    \/ \E c \in Conns : client_thread_scan(c)
    \/ \E c \in Conns : client_thread_remove(c)
    \/ \E c \in Conns : peer_disconnect(c)

SpecBroadcast == Init /\ [][NextBroadcast]_vars

\* Clients that connect and leave without a request, and an operator who
\* only shuts the server down.
NextShutdown ==
    \/ start_server_check
    \/ start_server_accept_fail
    \/ start_server_accept_stays
    \/ admin_read(ShutdownLine)
    \/ admin_shutdown_close
    \/ \E c \in Conns : start_server_accept(c)
    \/ \E c \in Conns : client_thread_register(c)
    \/ \E c \in Conns : client_thread_recv_end(c)
    \/ \E c \in Conns : client_thread_close(c)
    \/ \E c \in Conns : client_thread_scan(c)
    \/ \E c \in Conns : client_thread_remove(c)
    \/ \E c \in Conns : peer_disconnect(c)

SpecShutdown == Init /\ [][NextShutdown]_vars

\* The same with the scheduling of the threads: a thread that can take a
\* step takes it in the end.  Nothing makes a client connect.
SpecShutdownFair ==
    /\ Init
    /\ [][NextShutdown]_vars
    /\ WF_vars(start_server_check)
    /\ WF_vars(start_server_accept_fail)
    /\ WF_vars(admin_shutdown_close)

\* The operator at the console, typing any line, while clients connect.
NextAdmin ==
    \/ start_server_check
    \/ start_server_accept_fail
    \/ start_server_accept_stays
    \/ admin_list_step
    \/ admin_broadcast_step /\ UNCHANGED inbox
    \/ admin_broadcast_done
    \/ admin_shutdown_close
    \/ \E line \in TypedLines : admin_read(line)
    \/ \E c \in Conns : start_server_accept(c)
    \/ \E c \in Conns : client_thread_register(c)

SpecAdmin == Init /\ [][NextAdmin]_vars

\* The server, the admin console and every client, no history kept.
Next ==
    \/ start_server_check
    \/ start_server_accept_fail
    \/ start_server_accept_stays
    \/ admin_list_step
    \/ admin_broadcast_step /\ UNCHANGED inbox
    \/ admin_broadcast_done
    \/ admin_shutdown_close
    \/ \E line \in AdminLines : admin_read(line)
    \/ \E c \in Conns : start_server_accept(c)
    \/ \E c \in Conns : client_thread_register(c)
    \/ \E c \in Conns : \E m \in RegMsgs : client_thread_recv(c, m) /\ UNCHANGED hist
    \/ \E c \in Conns : client_thread_recv_end(c)
    \/ \E c \in Conns : client_thread_handle(c)
    \/ \E c \in Conns : \E ok \in BOOLEAN : client_thread_send(c, ok) /\ UNCHANGED << hist, inbox >>
    \/ \E c \in Conns : client_thread_close(c)
    \/ \E c \in Conns : client_thread_scan(c)
    \/ \E c \in Conns : client_thread_remove(c)
    \/ \E c \in Conns : peer_disconnect(c)

Spec == Init /\ [][Next]_vars

\* The server and its clients with the operator silent, over the messages M
\* and at most n of them on a connection of C, the history kept.
NextTraced(C, M, n) ==
    \/ start_server_check
    \/ \E c \in C : start_server_accept(c)
    \/ \E c \in C : client_thread_register(c)
    \/ \E c \in C : \E m \in M :
          /\ NumReqs(hist[c]) < n
          /\ client_thread_recv(c, m)
          /\ RecordReq(c, m)
    \/ \E c \in C : client_thread_recv_end(c)
    \/ \E c \in C : client_thread_handle(c)
    \/ \E c \in C : \E ok \in BOOLEAN : client_thread_send(c, ok) /\ RecordResp(c, ok) /\ UNCHANGED inbox
    \/ \E c \in C : client_thread_close(c)
    \/ \E c \in C : client_thread_scan(c)
    \/ \E c \in C : client_thread_remove(c)
    \/ \E c \in C : peer_disconnect(c)

\* chat and history requests from every connection
NextHistory == NextTraced(Conns, HistMsgs, MaxReqs)
SpecHistory == Init /\ [][NextHistory]_vars

\* chat requests from every connection
NextLog == NextTraced(Conns, LogMsgs, MaxReqs)
SpecLog == Init /\ [][NextLog]_vars

\* one connection, every kind of message, any quote list
NextConn == NextTraced({1}, ConnMsgs, MaxReqs)
SpecConn == InitAnyQuotes /\ [][NextConn]_vars

\* server.py: the basic server and its clients, any quote list, no history kept
NextBasic ==
    \/ run_server_listen
    \/ \E c \in Conns : run_server_accept(c)
    \/ \E c \in Conns : \E m \in ConnMsgs : run_server_recv(c, m) /\ UNCHANGED hist
    \/ \E c \in Conns : run_server_recv_eof(c)
    \/ \E c \in Conns : run_server_recv_reset(c)
    \/ \E c \in Conns : run_server_handle(c)
    \/ \E c \in Conns : \E ok \in BOOLEAN : run_server_send(c, ok) /\ UNCHANGED hist
    \/ \E c \in Conns : peer_disconnect(c)

SpecBasic == InitAnyQuotes /\ [][NextBasic]_vars

\* Every kind of message on one connection and an operator who broadcasts,
\* any quote list, no history kept; the chat log is kept to MaxReqs lines.
NextFrames ==
    \/ start_server_check
    \/ admin_broadcast_step /\ UNCHANGED inbox
    \/ admin_broadcast_done
    \/ admin_read(BroadcastLine)
    \/ start_server_accept(1)
    \/ client_thread_register(1)
    \/ \E m \in ConnMsgs :
          /\ Len(chatLog) < MaxReqs
          /\ client_thread_recv(1, m)
          /\ UNCHANGED hist
    \/ client_thread_recv_end(1)
    \/ client_thread_handle(1)
    \/ \E ok \in BOOLEAN : client_thread_send(1, ok) /\ UNCHANGED << hist, inbox >>
    \/ client_thread_close(1)
    \/ client_thread_scan(1)
    \/ client_thread_remove(1)
    \/ peer_disconnect(1)

SpecFrames == InitAnyQuotes /\ [][NextFrames]_vars

\* One console client on connection 1, making up to MaxReqs calls of
\* send_request, and an operator who broadcasts while no more than MaxReqs
\* frames wait in the client's socket.
NextClient ==
    \/ start_server_check
    \/ start_server_accept(1)
    \/ client_thread_register(1)
    \/ \E m \in ClientMsgs : Len(calls[1]) < MaxReqs /\ send_request_send(1, m)
    \/ /\ Unreceived(1) > 0
       /\ client_thread_recv(1, calls[1][NumReqs(hist[1]) + 1].req)
       /\ RecordReq(1, calls[1][NumReqs(hist[1]) + 1].req)
    \/ client_thread_handle(1)
    \/ \E ok \in BOOLEAN :
          client_thread_send(1, ok) /\ RecordResp(1, ok) /\ DeliverReply(1, ok)
    \/ send_request_recv(1)
    \/ Len(inbox[1]) < MaxReqs /\ admin_read(BroadcastLine)
    \/ admin_broadcast_step /\ DeliverBroadcast
    \/ admin_broadcast_done

SpecClient == Init /\ [][NextClient]_vars

\* encryption.py: one round trip for every plaintext and every key
NextCodec == encrypt_text_call \/ decrypt_text_call

SpecCodec ==
    /\ \E p \in Plains, k \in Keys : InitServer(DefaultQuotes) /\ InitCodec(p, k) /\ InitClient
    /\ [][NextCodec]_vars

\* ============================================================ properties
Serving(c)  == hpc[c] \in {"recv", "got", "send"}
Cleaning(c) == hpc[c] \in {"close", "scan", "remove"}
Reqs(c)     == { i \in 1..Len(hist[c]) : hist[c][i].ev = "req" }
Answered(c, i) == i < Len(hist[c]) /\ hist[c][i+1].ev = "resp"
Dropped(m)  == m.wire \in {"badcodec", "badjson"}

\* C1: a connection has an entry in clients exactly while its handler is
\* between registration and cleanup: none before clients.append, exactly one
\* while the receive loop runs, at most one while the cleanup runs, none once
\* the handler has finished.
C1_EntryIffServing ==
    \A c \in Conns :
        /\ hpc[c] \in {"none", "start"} => Count(clients, c) = 0
        /\ Serving(c) => Count(clients, c) = 1
        /\ Cleaning(c) => Count(clients, c) <= 1
        /\ hpc[c] = "done" => Count(clients, c) = 0

\* C2: no leaked or phantom entry: a handler that has terminated has no
\* entry in clients, and whenever no handler is registering or cleaning up
\* the registry size is the number of open connections.
C2_NoLeakedEntry ==
    /\ \A c \in Conns : hpc[c] = "done" => c \notin Range(clients)
    /\ (\A c \in Conns : hpc[c] # "start" /\ ~Cleaning(c))
          => Len(clients) = Cardinality({ c \in Conns : Serving(c) })

\* C3: when a BROADCAST has finished, every connection that was registered
\* when it started and is still connected (its handler still serving, its
\* client still there) has been sent the frame with success, whatever the
\* other connections did meanwhile.
C3_BroadcastReachesAll ==
    apc = "bsent" =>
        \A c \in bStart :
            (Serving(c) /\ ~peerGone[c])
               => \E i \in 1..Len(bLog) : bLog[i].c = c /\ bLog[i].ok

\* a step of the admin thread, of those that do not read a line
AdminMoved == apc' # apc \/ aidx' # aidx

C5_QuitClosesAndUnregisters ==
    \A c \in Conns :
        /\ (hpc[c] = "send" /\ cur[c].type = "quit")
              => (sockOpen[c] /\ resp[c].status = "ok")
        /\ why[c] = "quit" => ~Serving(c)
        /\ (why[c] = "quit" /\ hpc[c] = "done")
              => (~sockOpen[c] /\ c \notin Range(clients))

KnownTypes == {"chat", "time", "math", "quote", "history", "quit"}

\* C6: the response to a request of an unknown type T has status "error"
\* and the error text "Unknown request type: T", and after it the handler
\* is back in its receive loop.
C6_UnknownTypeNamed ==
    \A c \in Conns : \A i \in 1..Len(hist[c]) :
        LET e == hist[c][i] IN
        (e.ev = "resp" /\ e.m.type \notin KnownTypes)
           => /\ e.r.status = "error"
              /\ e.r.error = << "Unknown request type: ", e.m.type >>
              /\ (i = Len(hist[c]) => hpc[c] = "recv" \/ peerGone[c])

\* C7: a message that fails decoding or JSON parsing is dropped: no response
\* is ever recorded for it, and the step that handles it goes back to recv
\* with the history, the registry, the socket and the chat log unchanged.
C7_MalformedDropped ==
    /\ [](\A c \in Conns : \A i \in 1..Len(hist[c]) :
             hist[c][i].ev = "resp" => ~Dropped(hist[c][i].m))
    /\ [][ \A c \in Conns :
              (hpc[c] = "got" /\ Dropped(cur[c]) /\ hpc'[c] # "got") =>
                  /\ hpc'[c] = "recv"
                  /\ hist'[c] = hist[c]
                  /\ clients' = clients
                  /\ c \in Range(clients)
                  /\ sockOpen'[c]
                  /\ chatLog' = chatLog ]_vars

\* C7 witness: a malformed message was dropped and the next request on the
\* same connection has been answered.
C7_Witness ==
    \E c \in Conns :
        /\ Len(hist[c]) = 3
        /\ Dropped(hist[c][1].m)
        /\ hist[c][2].ev = "req"
        /\ hist[c][3].ev = "resp"

\* C8: a handled quote request is answered: with a quote of the list when
\* the list is non-empty, with an error response when it is empty, and the
\* handler then goes on serving.
C8_QuoteAnswered ==
    \A c \in Conns : \A i \in Reqs(c) :
        LET e == hist[c][i] IN
        (e.m.wire = "object" /\ e.m.type = "quote" /\ ~peerGone[c]
            /\ (i < Len(hist[c]) \/ hpc[c] \notin {"got", "send"}))
           => /\ Answered(c, i)
              /\ LET r == hist[c][i+1].r IN
                 IF quotes # << >>
                   THEN r.status = "ok" /\ r.data.kind = "quote"
                        /\ r.data.quote \in Range(quotes)
                   ELSE r.status = "error" /\ r.error # NoError
              /\ (i + 1 = Len(hist[c]) => hpc[c] = "recv")

\* chat requests received, and log lines, with a given user and message
ChatReqs(u, t) ==
    { ci \in Conns \X (1..(2 * MaxReqs)) :
         /\ ci[2] \in Reqs(ci[1])
         /\ LET m == hist[ci[1]][ci[2]].m IN
            /\ m.wire = "object" /\ m.type = "chat"
            /\ Get(m.user, "Unknown") = u /\ Get(m.message, "") = t }
ChatLines(u, t) == { i \in 1..Len(chatLog) : chatLog[i].user = u /\ chatLog[i].msg = t }
ChatUsers == {"ann", "bob", "Unknown"}
ChatTexts == {"hi", "yo", ""}
AllChatReqs == UNION { ChatReqs(u, t) : u \in ChatUsers, t \in ChatTexts }

C10_ResponsesInOrder ==
    \A c \in Conns : \A i \in 1..Len(hist[c]) :
        LET h == hist[c] IN
        /\ h[i].ev = "req" =>
              /\ h[i].k = Cardinality({ j \in 1..i : h[j].ev = "req" })
              /\ (i < Len(h) /\ ~Dropped(h[i].m)) => h[i+1].ev = "resp"
        /\ h[i].ev = "resp" =>
              /\ i > 1
              /\ h[i-1].ev = "req"
              /\ h[i-1].k = h[i].k
              /\ h[i-1].m = h[i].m
              /\ h[i].r # NoResp

\* C10 witness: two requests in a row were each answered.
C10_Witness ==
    \E c \in Conns :
        /\ Len(hist[c]) = 4
        /\ hist[c][2].ev = "resp" /\ hist[c][4].ev = "resp"
        /\ hist[c][2].r.status = "error" /\ hist[c][4].r.status = "ok"

\* C11: once shutdown_flag is set the server loop accepts no connection and
\* starts no handler: no step taken with the flag set turns a connection
\* that did not exist into an accepted one.
C11_NoAcceptAfterShutdown ==
    [][ shutdown_flag => \A c \in Conns : hpc[c] = "none" => hpc'[c] = "none" ]_vars

\* C12: after SHUTDOWN the listening socket is closed and the server loop
\* leaves its accept loop in the end, whatever it was doing, and the admin
\* loop ends unless the process has ended first.
C12_ShutdownEndsLoop ==
    /\ shutdown_flag ~> (spc = "exit" /\ ~listenOpen)
    /\ (apc = "shut") ~> (apc = "done" \/ spc = "exit")

\* C13: once the server has shut down no connection is left open: every
\* connection that was accepted has had its handler finish, its socket
\* closed and its entry removed.
C13_ShutdownClosesClients ==
    (shutdown_flag /\ spc = "exit") =>
        \A c \in Conns :
            hpc[c] # "none" => (hpc[c] = "done" /\ ~sockOpen[c] /\ c \notin Range(clients))

\* C14: an error on a client connection (EOF, reset, a failed send of a
\* reply, an exception while handling a request) does not end the server:
\* after any of them the server is still running with its listening socket
\* open.
C14_ClientErrorContained ==
    (\E c \in Conns : why[c] \in {"gone", "error"}) => (spc # "exit" /\ listenOpen)

\* C19: the basic server serves at most one client at a time: while a client
\* is served the server is not in accept and every other connection is
\* either not yet accepted or finished with its socket closed; a client is
\* accepted only from accept, and when the inner loop ends by disconnect or
\* by quit the server is back in accept with that client's socket closed.
C19_OneClientAtATime ==
    /\ [](/\ Cardinality({ c \in Conns : Serving(c) }) <= 1
          /\ \A c \in Conns :
                Serving(c) =>
                    /\ spc = "serve"
                    /\ \A d \in Conns \ {c} :
                          hpc[d] \in {"none", "done"} /\ (hpc[d] = "done" => ~sockOpen[d]))
    /\ [][ \A c \in Conns :
              /\ (hpc[c] = "none" /\ hpc'[c] # "none")
                    => (spc = "accept" /\ \A d \in Conns : ~Serving(d))
              /\ (Serving(c) /\ hpc'[c] = "done" /\ why'[c] \in {"gone", "quit"})
                    => (spc' = "accept" /\ ~sockOpen'[c]) ]_vars

\* C19 witness: the first client's loop has ended by disconnect or quit and
\* the second client is being served.
C19_Witness ==
    /\ hpc[1] = "done" /\ why[1] \in {"gone", "quit"}
    /\ hpc[2] = "send"

\* the text typed after the keyword of a BROADCAST line
TextTyped(line) == SubSeq(strip(line), Len(BROADCAST) + 1, Len(strip(line)))

\* C15: the frame built for a BROADCAST line is an ok response without
\* error, its color the announcement color, its reply the text typed after
\* the keyword, in the case it was typed in.
C15_BroadcastTextUnchanged ==
    apc \in {"bcast", "bsent"} =>
        /\ frame.status = "ok"
        /\ frame.error = NoError
        /\ frame.data.color = "yellow"
        /\ frame.data.reply = TextTyped(typed)

\* C16: for every plaintext and every key, encrypt_text returns and
\* decrypt_text of its result with the same key returns the plaintext.
C16_RoundTrip ==
    /\ encrypted # NotCalled => encrypted.r = "ok"
    /\ decrypted # NotCalled => decrypted = Returned(plain_text)

\* the number a math request gives for a field: 0 when the field is absent
Given(v) == IF v = AbsentVal THEN 0 ELSE v.n

\* C17: a math request whose a and b are numeric (a number, a string that
\* reads as one, or absent) is answered ok with a and b echoed, an absent
\* one as 0, and sum = a + b; one with a non-numeric a or b is answered with
\* an error; either way the request is answered while the client is there
\* and the handler then goes on serving.
C17_MathSum ==
    \A c \in Conns : \A i \in Reqs(c) :
        LET m == hist[c][i].m IN
        (m.wire = "object" /\ m.type = "math") =>
            /\ (~peerGone[c] /\ (i < Len(hist[c]) \/ hpc[c] \notin {"got", "send"}))
                  => Answered(c, i)
            /\ Answered(c, i) =>
                  LET r == hist[c][i+1].r IN
                  /\ IF m.a # NonNum /\ m.b # NonNum
                       THEN /\ r.status = "ok"
                            /\ r.data.a = Given(m.a)
                            /\ r.data.b = Given(m.b)
                            /\ r.data.sum = Given(m.a) + Given(m.b)
                       ELSE r.status = "error" /\ r.error # NoError
                  /\ (i + 1 = Len(hist[c]) => (hpc[c] = "recv" \/ peerGone[c]))

\* C17 witness: a math request with a non-numeric field was answered with
\* an error and the next one, with a absent, was answered ok with a sum.
C17_Witness ==
    \E c \in Conns :
        /\ Len(hist[c]) = 4
        /\ hist[c][1].m.type = "math" /\ hist[c][2].r.status = "error"
        /\ hist[c][3].m = MathMsg(AbsentVal, Num(2))
        /\ hist[c][4].ev = "resp" /\ hist[c][4].r.data.sum = 2

\* C20: a handler is past its receive loop only because the receive found
\* the client gone (zero-length read or reset) or because the reply to a
\* quit was sent.
C20_ClosingOnlyOnEndOrQuit ==
    \A c \in Conns :
        hpc[c] \in {"close", "scan", "remove", "done"} => why[c] \in {"gone", "quit"}

\* a response with exactly one meaningful payload
OnePayload(r) ==
    /\ r.status \in {"ok", "error"}
    /\ r.status = "ok" => (r.data # NoData /\ r.error = NoError)
    /\ r.status = "error" => (r.error # NoError /\ r.data = NoData)

\* C18: every response about to be sent, the reply a handler has built and
\* the frame of a broadcast, has status ok with data and no error, or
\* status error with an error text and no data.
C18_OnePayload ==
    /\ \A c \in Conns : hpc[c] = "send" => OnePayload(resp[c])
    /\ apc \in {"bcast", "bsent"} => OnePayload(frame)

\* C18 witness: a broadcast is under way, its frame built, while the
\* handler is about to send an error reply.
C18_Witness ==
    /\ apc = "bcast" /\ frame # NoResp
    /\ hpc[1] = "send" /\ resp[1].status = "error"

\* C21: the registry never holds an entry whose socket is closed: the
\* handler takes its entry out before it closes the socket.
C21_NoClosedSocketInRegistry ==
    \A c \in Range(clients) : sockOpen[c]

\* C22: a finished BROADCAST has visited every entry that was registered
\* when it started and still is, and has visited no entry twice.
C22_IterationIsSnapshot ==
    apc = "bsent" =>
        /\ \A c \in bStart \cap Range(clients) : \E i \in 1..Len(bLog) : bLog[i].c = c
        /\ \A i, j \in 1..Len(bLog) : i # j => bLog[i].c # bLog[j].c

\* the entries of s other than x, in their order
Others(s, x) == SelectSeq(s, LAMBDA e : e # x)

\* a step of the cleanup of connection c
CleanupStep(c) == Cleaning(c) /\ (hpc'[c] # hpc[c] \/ idx'[c] # idx[c])

Logged(c) ==
    \E i \in 1..Len(chatLog) :
        /\ chatLog[i].user = Get(cur[c].user, "Unknown")
        /\ chatLog[i].msg = Get(cur[c].message, "")

\* log is the first lines of log2
IsPrefix(log, log2) == Len(log) <= Len(log2) /\ SubSeq(log2, 1, Len(log)) = log

\* the handler of c takes the history request it has received through the
\* dispatch, up to the sendall
HandlesHistory(c) ==
    /\ hpc[c] = "got" /\ cur[c].wire = "object" /\ cur[c].type = "history"
    /\ hpc'[c] = "send"

\* C24: a chat's line is in the log when its reply is about to be sent, the
\* log only grows at its end, and the response built for a history request
\* is the log as it stands then, line for line and character for character:
\* so it holds every entry whose reply went out before the request came in.
C24_HistoryHoldsRepliedChats ==
    /\ [](\A c \in Conns :
            (hpc[c] = "send" /\ cur[c].type = "chat") => Logged(c))
    /\ [][IsPrefix(chatLog, chatLog')]_vars
    /\ [][\A c \in Conns :
            HandlesHistory(c) => resp'[c].data.history = chatLog]_vars

\* the handler of c takes the request object it has received through the
\* dispatch; it sends, or fails to send, the reply it has built
HandleStep(c) == hpc[c] = "got" /\ cur[c].wire = "object" /\ hpc'[c] # "got"
SendStep(c)   == hpc[c] = "send" /\ hpc'[c] # "send"

\* C25: handling a request object changes neither the registry nor the
\* shutdown flag; a chat appends exactly one line to the log and every other
\* type leaves the log as it is; the handler builds a reply and, the client
\* still there, leaves its loop after a quit and after no other type.
C25_RequestEffects ==
    [][ \A c \in Conns :
          /\ HandleStep(c) =>
                /\ clients' = clients
                /\ shutdown_flag' = shutdown_flag
                /\ IF cur[c].type = "chat"
                     THEN Len(chatLog') = Len(chatLog) + 1 /\ IsPrefix(chatLog, chatLog')
                     ELSE chatLog' = chatLog
                /\ hpc'[c] = "send"
          /\ (SendStep(c) /\ ~peerGone[c]) =>
                /\ clients' = clients /\ shutdown_flag' = shutdown_flag
                /\ chatLog' = chatLog
                /\ hpc'[c] = (IF cur[c].type = "quit" THEN "close" ELSE "recv") ]_vars

\* the line, its surrounding whitespace aside, is the keyword kw in any case
IsKeyword(line, kw) == upper(strip(line)) = kw

\* the line is the keyword BROADCAST in any case, a space and a text
IsBroadcast(line) ==
    LET w == strip(line)
        n == Len(BROADCAST)
    IN  Len(w) > n /\ upper(SubSeq(w, 1, n)) = BROADCAST

\* the line is one of the three commands of the console
IsCommand(line) ==
    IsKeyword(line, LIST) \/ IsKeyword(line, SHUTDOWN) \/ IsBroadcast(line)

\* input() has returned a line to the admin loop, which has branched on it
AdminRead == apc = "read" /\ (typed' # typed \/ apc' # apc)

\* no frame goes out, and registry, flag and listening socket stay the same
ConsoleQuiet ==
    /\ bLog' = bLog /\ frame' = frame
    /\ clients' = clients /\ sockOpen' = sockOpen
    /\ shutdown_flag' = shutdown_flag /\ listenOpen' = listenOpen

\* C26: a line read that is none of the three commands sends nothing,
\* changes neither registry, flag nor listening socket, and leaves the admin
\* loop reading; a LIST line and every step of its loop change none of them
\* either, and the loop at its end returns to reading.
C26_OtherLinesIgnored ==
    [][ /\ (AdminRead /\ ~IsCommand(typed')) => (apc' = "read" /\ ConsoleQuiet)
        /\ (AdminRead /\ IsKeyword(typed', LIST)) => (apc' = "list" /\ ConsoleQuiet)
        /\ (apc = "list" /\ AdminMoved) => (apc' \in {"list", "read"} /\ ConsoleQuiet)
      ]_vars

\* C26 witness: with a client registered and the server running, the line
\* "shutdown now" has been read and the admin loop is reading again.
C26_Witness ==
    /\ typed = <<"s", "h", "u", "t", "d", "o", "w", "n", " ", "n", "o", "w">>
    /\ apc = "read" /\ clients # << >>
    /\ ~shutdown_flag /\ listenOpen

\* C27: every frame send_request has returned is the server's response to
\* the request of that call: the i-th call on a connection returns the
\* response to the i-th request, never a broadcast frame.
C27_ReplyMatchesRequest ==
    \A c \in Conns : \A i \in 1..Len(calls[c]) :
        calls[c][i].got # NoFrame =>
            /\ calls[c][i].got.k = i
            /\ calls[c][i].got.r.data.kind # "broadcast"

====
